---- MODULE Spec2Model ----
(***************************************************************************)
(* Payment completion and enrollment commit of the course marketplace:    *)
(* OrderService.checkoutOrder / processingPurchaseOrder / completeOrder /  *)
(* copyCartToOrder / deleteDiscountFromStudent, PaymentService             *)
(* .createVnPayPayment, VNPayUtil, and the two addStudentToCourse          *)
(* services, over the tables carts, cart_items, orders, order_items,       *)
(* enrollments, student_discount, course and discount.                     *)
(*                                                                         *)
(* A JavaScript string is a sequence of one-character strings; the empty   *)
(* string '' is << >>.  NaN and undefined are the values NaN, Undefined.    *)
(***************************************************************************)
EXTENDS Integers, Sequences, FiniteSets, TLC

\* ------------------------------------------------------------------ bounds
NumProcs == 2

\* ------------------------------------------------------------ JS values
\* NaN is a number outside the range of every number the model computes;
\* undefined is a value no string is equal to
NaN == 0 - 999999999
Undefined == <<"undefined">>

Digits == <<"0", "1", "2", "3", "4", "5", "6", "7", "8", "9">>

IsDigit(ch) == \E i \in 1..10 : Digits[i] = ch

DigitVal(ch) == (CHOOSE i \in 1..10 : Digits[i] = ch) - 1

\* Number -> String for an integer (String(n), template literals)
RECURSIVE NatToStr(_)
NatToStr(n) == IF n < 10 THEN <<Digits[n + 1]>>
               ELSE NatToStr(n \div 10) \o <<Digits[(n % 10) + 1]>>

NumToStr(n) == IF n = NaN THEN <<"N", "a", "N">>
               ELSE IF n < 0 THEN <<"-">> \o NatToStr(0 - n) ELSE NatToStr(n)

\* the longest prefix of decimal digits of s, as a number (acc on no digit)
RECURSIVE DigitPrefix(_, _, _)
DigitPrefix(s, i, acc) ==
  IF i > Len(s) \/ ~IsDigit(s[i]) THEN acc
  ELSE DigitPrefix(s, i + 1, acc * 10 + DigitVal(s[i]))

RECURSIVE SkipSpaces(_, _)
SkipSpaces(s, i) == IF i <= Len(s) /\ s[i] = " " THEN SkipSpaces(s, i + 1) ELSE i

\* parseInt(s): leading blanks skipped, an optional sign, then the longest
\* run of digits; NaN when there is no digit there; parseInt(undefined) is NaN
parseInt(s) ==
  IF s = Undefined THEN NaN
  ELSE LET i == SkipSpaces(s, 1)
           neg == i <= Len(s) /\ s[i] = "-"
           j == IF i <= Len(s) /\ s[i] \in {"-", "+"} THEN i + 1 ELSE i
       IN IF j > Len(s) \/ ~IsDigit(s[j]) THEN NaN
          ELSE IF neg THEN 0 - DigitPrefix(s, j, 0) ELSE DigitPrefix(s, j, 0)

\* String.prototype.split(sep) for a non-empty separator: the pieces between
\* the non-overlapping occurrences of sep found left to right
IsAt(s, i, sep) == /\ i + Len(sep) - 1 <= Len(s)
                   /\ \A k \in 1..Len(sep) : s[i + k - 1] = sep[k]

RECURSIVE SplitFrom(_, _, _, _)
SplitFrom(s, sep, i, cur) ==
  IF i > Len(s) THEN <<cur>>
  ELSE IF IsAt(s, i, sep) THEN <<cur>> \o SplitFrom(s, sep, i + Len(sep), << >>)
  ELSE SplitFrom(s, sep, i + 1, Append(cur, s[i]))

split(s, sep) == SplitFrom(s, sep, 1, << >>)

\* Array.prototype.filter(id => id) on strings: drops the empty strings
filterNonEmpty(arr) == SelectSeq(arr, LAMBDA x : x # << >>)

mapParseInt(arr) == [k \in 1..Len(arr) |-> parseInt(arr[k])]

includes(arr, x) == \E k \in 1..Len(arr) : arr[k] = x

RECURSIVE Concat(_)
Concat(ss) == IF ss = << >> THEN << >> ELSE Head(ss) \o Concat(Tail(ss))

\* ------------------------------------------------------------ VNPayUtil
LowerCase == <<"a", "b", "c", "d", "e", "f", "g", "h", "i", "j", "k", "l", "m",
               "n", "o", "p", "q", "r", "s", "t", "u", "v", "w", "x", "y", "z">>

UpperCase == <<"A", "B", "C", "D", "E", "F", "G", "H", "I", "J", "K", "L", "M",
               "N", "O", "P", "Q", "R", "S", "T", "U", "V", "W", "X", "Y", "Z">>

IsLower(ch) == \E i \in 1..26 : LowerCase[i] = ch

IsUpper(ch) == \E i \in 1..26 : UpperCase[i] = ch

\* String.prototype.localeCompare (ICU root collation, ASCII subset): the
\* first level orders punctuation before digits before letters and ignores
\* letter case; on a first-level tie the lower-case letter sorts first
Primary(ch) ==
  IF ch = "_" THEN 1
  ELSE IF IsDigit(ch) THEN 2 + DigitVal(ch)
  ELSE IF IsLower(ch) THEN 12 + (CHOOSE i \in 1..26 : LowerCase[i] = ch)
  ELSE IF IsUpper(ch) THEN 12 + (CHOOSE i \in 1..26 : UpperCase[i] = ch)
  ELSE 0

Tertiary(ch) == IF IsUpper(ch) THEN 1 ELSE 0

\* lexicographic comparison of two sequences of numbers: -1, 0 or 1
RECURSIVE LexCompare(_, _, _)
LexCompare(a, b, i) ==
  IF i > Len(a) /\ i > Len(b) THEN 0
  ELSE IF i > Len(a) THEN 0 - 1
  ELSE IF i > Len(b) THEN 1
  ELSE IF a[i] < b[i] THEN 0 - 1
  ELSE IF a[i] > b[i] THEN 1
  ELSE LexCompare(a, b, i + 1)

localeCompare(a, b) ==
  LET first == LexCompare([k \in 1..Len(a) |-> Primary(a[k])],
                          [k \in 1..Len(b) |-> Primary(b[k])], 1)
  IN IF first # 0 THEN first
     ELSE LexCompare([k \in 1..Len(a) |-> Tertiary(a[k])],
                     [k \in 1..Len(b) |-> Tertiary(b[k])], 1)

\* Array.prototype.sort(([keyA], [keyB]) => keyA.localeCompare(keyB)): stable
RECURSIVE InsertSorted(_, _)
InsertSorted(sorted, e) ==
  IF sorted = << >> THEN <<e>>
  ELSE IF localeCompare(e[1], Head(sorted)[1]) < 0 THEN <<e>> \o sorted
  ELSE <<Head(sorted)>> \o InsertSorted(Tail(sorted), e)

\* mutant: the entries stay in insertion order
sortByInsertion(entries) == entries

RECURSIVE sortByKey(_)
sortByKey(entries) ==
  IF entries = << >> THEN << >>
  ELSE InsertSorted(sortByKey(SubSeq(entries, 1, Len(entries) - 1)),
                    entries[Len(entries)])

\* encodeURIComponent: letters, digits and - _ . ! ~ * ' ( ) stay, every
\* other character becomes %XX
encodeChar(ch) ==
  IF IsDigit(ch) \/ IsLower(ch) \/ IsUpper(ch)
     \/ ch \in {"-", "_", ".", "!", "~", "*", "'", "(", ")"} THEN <<ch>>
  ELSE IF ch = "#" THEN <<"%", "2", "3">>
  ELSE IF ch = "%" THEN <<"%", "2", "5">>
  ELSE IF ch = "&" THEN <<"%", "2", "6">>
  ELSE IF ch = "=" THEN <<"%", "3", "D">>
  ELSE IF ch = "+" THEN <<"%", "2", "B">>
  ELSE <<"%", "2", "0">>

encodeURIComponent(str) == Concat([k \in 1..Len(str) |-> encodeChar(str[k])])

RECURSIVE join(_, _)
join(parts, sep) ==
  IF parts = << >> THEN << >>
  ELSE IF Len(parts) = 1 THEN parts[1]
  ELSE parts[1] \o sep \o join(Tail(parts), sep)

\* the value null where a string is expected
null == <<"null">>

\* VNPayUtil.getPaymentURL(paramsMap, encodeKey); paramsMap is the sequence
\* of <<key, value>> entries of the Map in insertion order
getPaymentURL(paramsMap, encodeKey) ==
  LET kept == SelectSeq(paramsMap,
                        LAMBDA e : e[2] # null /\ e[2] # Undefined /\ e[2] # << >>)
      sortedParams == sortByKey(kept)
      pair(e) == (IF encodeKey THEN encodeURIComponent(e[1]) ELSE e[1])
                 \o <<"=">> \o encodeURIComponent(e[2])
  IN join([k \in 1..Len(sortedParams) |-> pair(sortedParams[k])], <<"&">>)

\* mutant: the digest does not depend on the data
hmacSHA512KeyOnly(key, data) ==
  IF key = << >> \/ data = << >> THEN << >> ELSE <<"hmac">> \o key

\* VNPayUtil.hmacSHA512(key, data): '' when key or data is empty (the thrown
\* error is caught); otherwise the digest, kept symbolic: two digests are
\* equal exactly when key and data are
hmacSHA512(key, data) ==
  IF key = << >> \/ data = << >> THEN << >>
  ELSE <<"hmac">> \o key \o <<"|">> \o data

\* ----------------------------------------------------- configuration, ids
\* VNPayConfigService.getSecretKey(): VNPAY_HASH_SECRET of the deployment
secretKey == <<"k">>

vnp_Amount == <<"v", "n", "p", "_", "A", "m", "o", "u", "n", "t">>
vnp_OrderInfo == <<"v", "n", "p", "_", "O", "r", "d", "e", "r", "I", "n", "f", "o">>
vnp_SecureHash == <<"v", "n", "p", "_", "S", "e", "c", "u", "r", "e", "H", "a", "s", "h">>

\* createVnPayPayment, hashData and vnpSecureHash: the digest of the
\* parameters under the secret key
SecureHashOf(vnpParamsMap) ==
  hmacSHA512(secretKey, getPaymentURL(vnpParamsMap, FALSE))

\* null / undefined of an optional number (idDiscount)
Null == 0 - 999999998

Procs == 1..NumProcs
StudentIds == {12, 13}
CourseIds == {10, 20}
DiscountIds == {7, 9}

\* paymentParams[key] of a Record given as its entries; undefined if absent
Lookup(entries, key) ==
  IF \E k \in 1..Len(entries) : entries[k][1] = key
  THEN entries[CHOOSE k \in 1..Len(entries) : entries[k][1] = key][2]
  ELSE Undefined

\* delete paymentParams[key]
DeleteKey(entries, key) == SelectSeq(entries, LAMBDA e : e[1] # key)

\* ------------------------------------------------------------------ state
VARIABLES
  course,            \* table course: rows [course_id, price]
  discount,          \* table discount: rows [discount_id, value]
  carts,             \* table carts: rows [cart_id, student_id]
  cart_items,        \* table cart_items: rows [cart_id, course_id]
  orders,            \* table orders: rows [order_id, student_id, total_price]
  order_items,       \* table order_items: rows [order_id, course_id, price]
  enrollments,       \* table enrollments: rows [enrollment_id, student_id, course_id]
  student_discount,  \* table student_discount: rows [student_id, discount_id]
  orders_order_id_seq,            \* last value of the BIGSERIAL of orders
  enrollments_enrollment_id_seq,  \* last value of the BIGSERIAL of enrollments
  co,                \* co[p]: the completeOrder invocation p (locals, position)
  svc,               \* the addStudentToCourse call in progress, if any
  purchase,          \* the last processingPurchaseOrder call and its result
  util,              \* the last call of a VNPayUtil function and its result
  cartSvc,           \* cartSvc[p]: the CartService call p (locals, position)
  pre                \* the tables as found by the latest completeOrder call
                     \* that started while no other was running

tables == <<course, discount, carts, cart_items, orders, order_items,
            enrollments, student_discount>>

seqs == <<orders_order_id_seq, enrollments_enrollment_id_seq>>

vars == <<course, discount, carts, cart_items, orders, order_items,
          enrollments, student_discount, orders_order_id_seq,
          enrollments_enrollment_id_seq, co, svc, purchase, util, cartSvc, pre>>

\* the committed content of the tables a purchase writes
Snapshot == [orders |-> orders, order_items |-> order_items,
             enrollments |-> enrollments, cart_items |-> cart_items,
             student_discount |-> student_discount]

NoSnapshot == [orders |-> {}, order_items |-> {}, enrollments |-> {},
               cart_items |-> {}, student_discount |-> {}]

\* the writes of an open transaction, invisible to the others until commit
EmptyTx == [orders |-> {}, order_items |-> {}, enrollments |-> {},
            cart_del |-> {}]

IdleCo == [pc |-> "idle", request |-> "", infoOrder |-> << >>,
           idUser |-> NaN, idCourses |-> << >>,
           totalPrice |-> [int |-> NaN, frac |-> 0],
           cartId |-> 0, cartItems |-> << >>, i |-> 0, orderId |-> 0,
           cartItemsToDelete |-> << >>, tx |-> EmptyTx,
           error |-> "", wrote |-> EmptyTx, fault |-> FALSE]

Active(c) == c.pc \notin {"idle", "done", "failed"}

\* mutant: the amount is stored as received, in minor units
DivByOne(n) == [int |-> n, frac |-> 0]

\* totalPrice / 100 of a JS number: the integer part and the remainder
DivBy100(n) == IF n = NaN THEN [int |-> NaN, frac |-> 0]
               ELSE [int |-> n \div 100, frac |-> n % 100]

\* --------------------------------------------- OrderService.completeOrder
\* the locals of copyCartToOrder are gone when it returns or throws
Return(c) == [c EXCEPT !.cartId = 0, !.cartItems = << >>, !.i = 0, !.orderId = 0,
                       !.cartItemsToDelete = << >>,
                       !.tx = EmptyTx]

Throw(c, msg) == [Return(c) EXCEPT !.pc = "failed", !.error = msg]

\* no VNPayUtil function called yet
NoUtil == [op |-> "", paramsMap |-> << >>, altered |-> << >>, result |-> << >>,
           alteredResult |-> << >>]

\* no CartService call in slot p; cart and nextCartId are 0 while unset,
\* had and inserted record what the call found at its start and what it wrote
IdleCartCall == [op |-> "", pc |-> "idle", studentId |-> 0, courseId |-> 0,
                 cart |-> 0, nextCartId |-> 0, result |-> "",
                 had |-> FALSE, inserted |-> {}]

\* mutant: only the presence of vnp_SecureHash is checked
VerifySecureHashPresenceOnly(params) ==
  LET received == Lookup(params, vnp_SecureHash)
  IN IF received = Undefined \/ received = << >> THEN "vnp_SecureHash is required"
     ELSE ""

\* lines 318-334: the received vnp_SecureHash against the digest recomputed
\* over the other parameters; the message of the error thrown, "" if none
VerifySecureHash(params) ==
  LET received == Lookup(params, vnp_SecureHash)
      paymentParams == DeleteKey(params, vnp_SecureHash)
      hashData == getPaymentURL(paymentParams, FALSE)
      vnpSecureHash == hmacSHA512(secretKey, hashData)
  IN IF received = Undefined \/ received = << >> THEN "vnp_SecureHash is required"
     ELSE IF vnpSecureHash # received THEN "vnp_SecureHash is invalid"
     ELSE ""

\* copyCartToOrder up to its first read: startTransaction and SELECT cart_id
\* FROM carts WHERE student_id = $1; the invocation with its cart, or failed
\* and rolled back with nothing written
GetCart(c) ==
  LET cartResult == {r \in carts : r.student_id = c.idUser}
  IN IF c.idUser = NaN THEN {Throw(c, "invalid input syntax")}
     ELSE IF cartResult = {} THEN {Throw(c, "Cart not found")}
     ELSE {[c EXCEPT !.pc = "getCartItems", !.cartId = r.cart_id] : r \in cartResult}

\* lines 341-347 and 356-357: vnp_OrderInfo "idUser##idCourse1#idCourse2#...##idDiscount"
\* as completeOrder reads it; for an order info with at least two segments
DecodeOrderInfo(orderInfo) ==
  LET infoOrder == split(orderInfo, <<"#", "#">>)
  IN [infoOrder |-> infoOrder,
      idUser |-> parseInt(infoOrder[1]),
      idCourses |-> mapParseInt(filterNonEmpty(split(infoOrder[2], <<"#">>))),
      idDiscount |-> IF Len(infoOrder) = 3 /\ infoOrder[3] # << >>
                     THEN parseInt(infoOrder[3]) ELSE Null]

\* lines 316-353: the signature check, the decoding of vnp_OrderInfo and the
\* call of copyCartToOrder, up to its cart lookup; `request` names the
\* parameters received and `params` are those parameters
CompleteOrder(p, request, params) ==
  /\ co[p].pc = "idle"
  /\ LET paymentParams == DeleteKey(params, vnp_SecureHash)
         orderInfo == Lookup(paymentParams, vnp_OrderInfo)
         infoOrder == split(orderInfo, <<"#", "#">>)
         c0 == [co[p] EXCEPT !.request = request]
     IN IF VerifySecureHash(params) # ""
          THEN co' = [co EXCEPT ![p] = Throw(c0, VerifySecureHash(params))]
        ELSE IF orderInfo = Undefined \/ Len(infoOrder) < 2
          THEN co' = [co EXCEPT ![p] = Throw(c0, "TypeError")]
        ELSE \E c \in GetCart([c0 EXCEPT
                 !.infoOrder = infoOrder,
                 !.idUser = DecodeOrderInfo(orderInfo).idUser,
                 !.idCourses = DecodeOrderInfo(orderInfo).idCourses,
                 !.totalPrice = DivBy100(parseInt(Lookup(paymentParams, vnp_Amount)))]) :
               co' = [co EXCEPT ![p] = c]
  /\ pre' = IF \E q \in Procs : Active(co[q]) THEN pre ELSE Snapshot
  /\ UNCHANGED <<tables, seqs, svc, purchase, util, cartSvc>>

\* ------------------------------------------- OrderService.copyCartToOrder
\* mutant: the statements ran on the connection instead of the query runner,
\* so what was written before the failure stays
RollbackKeepsWrites(p, msg) ==
  /\ co' = [co EXCEPT ![p] = Throw(co[p], msg)]
  /\ orders' = orders \cup co[p].tx.orders
  /\ order_items' = order_items \cup co[p].tx.order_items
  /\ enrollments' = enrollments \cup co[p].tx.enrollments
  /\ cart_items' = cart_items \ co[p].tx.cart_del
  /\ UNCHANGED <<course, discount, carts, student_discount, seqs, svc, purchase, util, cartSvc, pre>>

\* mutant: the discount of the callback is deleted although the transaction
\* is rolled back
RollbackDeletesDiscount(p, msg) ==
  /\ co' = [co EXCEPT ![p] = Throw(co[p], msg)]
  /\ student_discount' =
       IF Len(co[p].infoOrder) = 3 /\ co[p].infoOrder[3] # << >>
       THEN {r \in student_discount :
               ~(/\ r.student_id = co[p].idUser
                 /\ r.discount_id = parseInt(co[p].infoOrder[3]))}
       ELSE student_discount
  /\ UNCHANGED <<course, discount, carts, cart_items, orders, order_items,
                 enrollments, seqs, svc, purchase, util, cartSvc, pre>>

\* catch: queryRunner.rollbackTransaction(), throw error; the writes of the
\* transaction are discarded
RollbackTransaction(p, msg) ==
  /\ co' = [co EXCEPT ![p] = Throw(co[p], msg)]
  /\ UNCHANGED <<tables, seqs, svc, purchase, util, cartSvc, pre>>

\* the rows of a result set in one of the orders the database may return
Orderings(S) ==
  {f \in [1..Cardinality(S) -> S] : \A a, b \in 1..Cardinality(S) : a # b => f[a] # f[b]}

\* mutant: every cart item is processed, in the purchase list or not
NextItemAny(c, from) == from

\* the first index from `from` on whose cart item is in the purchase list
\* (courseIds.includes(courseId)); Len + 1 when the loop is over
RECURSIVE NextItem(_, _)
NextItem(c, from) ==
  IF from > Len(c.cartItems) THEN from
  ELSE IF includes(c.idCourses, c.cartItems[from]) THEN from
  ELSE NextItem(c, from + 1)

\* mutant: the loop is left after the first cart item it handled
ContinueBreaks(c, from) ==
  LET n == IF from = 1 THEN NextItem(c, 1) ELSE Len(c.cartItems) + 1
  IN [c EXCEPT !.i = n,
               !.pc = IF n <= Len(c.cartItems) THEN "checkEnrollment"
                      ELSE IF Len(c.cartItemsToDelete) > 0 THEN "deleteCartItems"
                      ELSE "commit"]

\* continue with the cart item after index `from - 1`, or leave the loop
Continue(c, from) ==
  LET n == NextItem(c, from)
  IN [c EXCEPT !.i = n,
               !.pc = IF n <= Len(c.cartItems) THEN "checkEnrollment"
                      ELSE IF Len(c.cartItemsToDelete) > 0 THEN "deleteCartItems"
                      ELSE "commit"]

\* SELECT * FROM cart_items WHERE cart_id = $1
GetCartItems(p) ==
  /\ co[p].pc = "getCartItems"
  /\ LET rows == {r.course_id : r \in {x \in cart_items : x.cart_id = co[p].cartId}}
     IN IF rows = {}
          THEN RollbackTransaction(p, "No items in the cart")
        ELSE /\ \E cartItems \in Orderings(rows) :
                  co' = [co EXCEPT ![p].pc = "createOrder", ![p].cartItems = cartItems]
             /\ UNCHANGED <<tables, seqs, svc, purchase, util, cartSvc, pre>>

\* INSERT INTO orders (student_id, payment_date, total_price) ... RETURNING
\* order_id; total_price is BIGINT NOT NULL
CreateOrder(p) ==
  /\ co[p].pc = "createOrder"
  /\ IF co[p].totalPrice.int = NaN \/ co[p].totalPrice.frac # 0
       THEN RollbackTransaction(p, "invalid input syntax")
     ELSE LET orderId == orders_order_id_seq + 1
              row == [order_id |-> orderId, student_id |-> co[p].idUser,
                      total_price |-> co[p].totalPrice.int]
          IN /\ orders_order_id_seq' = orderId
             /\ co' = [co EXCEPT ![p] =
                  Continue([co[p] EXCEPT !.orderId = orderId,
                                         !.tx.orders = @ \cup {row},
                                         !.wrote.orders = @ \cup {row}], 1)]
             /\ UNCHANGED <<tables, enrollments_enrollment_id_seq, svc,
                            purchase, util, cartSvc, pre>>

\* the enrollments a statement of transaction p sees: the committed rows and
\* the rows p itself inserted (READ COMMITTED)
VisibleEnrollments(p) == enrollments \cup co[p].tx.enrollments

\* mutant: an existing enrollment is an error
CheckEnrollmentStrict(p) ==
  /\ co[p].pc = "checkEnrollment"
  /\ LET courseId == co[p].cartItems[co[p].i]
         existingEnrollment == {e \in VisibleEnrollments(p) :
                                  e.student_id = co[p].idUser /\ e.course_id = courseId}
     IN IF existingEnrollment = {}
          THEN /\ co' = [co EXCEPT ![p].pc = "getCoursePrice"]
               /\ UNCHANGED <<tables, seqs, svc, purchase, util, cartSvc, pre>>
        ELSE RollbackTransaction(p, "Already enrolled")

\* SELECT enrollment_id FROM enrollments WHERE student_id = $1 AND course_id = $2
CheckEnrollment(p) ==
  /\ co[p].pc = "checkEnrollment"
  /\ LET courseId == co[p].cartItems[co[p].i]
         existingEnrollment == {e \in VisibleEnrollments(p) :
                                  e.student_id = co[p].idUser /\ e.course_id = courseId}
     IN co' = [co EXCEPT ![p] =
                 IF existingEnrollment = {} THEN [co[p] EXCEPT !.pc = "getCoursePrice"]
                 ELSE Continue(co[p], co[p].i + 1)]
  /\ UNCHANGED <<tables, seqs, svc, purchase, util, cartSvc, pre>>

\* mutant: the order item is inserted and the loop goes on to the next cart
\* item, no enrollment is inserted
CreateOrderItemOnly(c, price) ==
  LET row == [order_id |-> c.orderId, course_id |-> c.cartItems[c.i], price |-> price]
  IN Continue([c EXCEPT !.tx.order_items = @ \cup {row},
                        !.wrote.order_items = @ \cup {row}],
              c.i + 1)

\* INSERT INTO order_items (order_id, course_id, price), a write of the
\* transaction of the invocation
CreateOrderItem(c, price) ==
  LET row == [order_id |-> c.orderId, course_id |-> c.cartItems[c.i], price |-> price]
  IN [c EXCEPT !.pc = "enroll",
               !.tx.order_items = @ \cup {row},
               !.wrote.order_items = @ \cup {row}]

\* mutant: a course missing at commit time aborts the transaction, as it
\* aborts the quote
GetCoursePriceStrict(p) ==
  /\ co[p].pc = "getCoursePrice"
  /\ LET courseId == co[p].cartItems[co[p].i]
         courseResult == {r \in course : r.course_id = courseId}
     IN IF courseResult = {}
          THEN RollbackTransaction(p, "Course not found")
        ELSE /\ \E r \in courseResult :
                  co' = [co EXCEPT ![p] = CreateOrderItem(co[p], r.price)]
             /\ UNCHANGED <<tables, seqs, svc, purchase, util, cartSvc, pre>>

\* SELECT price FROM course WHERE course_id = $1; not found: warn, continue;
\* found: the order item is inserted with that price
GetCoursePrice(p) ==
  /\ co[p].pc = "getCoursePrice"
  /\ LET courseId == co[p].cartItems[co[p].i]
         courseResult == {r \in course : r.course_id = courseId}
     IN IF courseResult = {}
          THEN co' = [co EXCEPT ![p] = Continue(co[p], co[p].i + 1)]
        ELSE \E r \in courseResult :
               co' = [co EXCEPT ![p] = CreateOrderItem(co[p], r.price)]
  /\ UNCHANGED <<tables, seqs, svc, purchase, util, cartSvc, pre>>

\* mutant: table enrollments created without UNIQUE(student_id, course_id)
UniqueStudentCourseDropped(rows, studentId, courseId) == FALSE

\* UNIQUE(student_id, course_id) of table enrollments: a row with this pair
\* is already among `rows`
UniqueStudentCourse(rows, studentId, courseId) ==
  \E e \in rows : e.student_id = studentId /\ e.course_id = courseId

\* mutant: the constraint is checked against committed rows only, an insert
\* never waits for an open transaction
WaitsForNobody(p, q, studentId, courseId) == FALSE

\* an insert of the pair waits while another open transaction holds an
\* uncommitted row with the same pair
WaitsFor(p, q, studentId, courseId) ==
  /\ q # p
  /\ UniqueStudentCourse(co[q].tx.enrollments, studentId, courseId)

\* INSERT INTO enrollments (student_id, course_id, ...); then
\* cartItemsToDelete.push(courseId)
Enroll(p) ==
  /\ co[p].pc = "enroll"
  /\ LET courseId == co[p].cartItems[co[p].i]
     IN /\ \A q \in Procs : ~WaitsFor(p, q, co[p].idUser, courseId)
        /\ IF UniqueStudentCourse(VisibleEnrollments(p), co[p].idUser, courseId)
             THEN RollbackTransaction(p, "duplicate key value violates unique constraint")
           ELSE LET id == enrollments_enrollment_id_seq + 1
                    row == [enrollment_id |-> id, student_id |-> co[p].idUser,
                            course_id |-> courseId]
                IN /\ enrollments_enrollment_id_seq' = id
                   /\ co' = [co EXCEPT ![p] =
                        Continue([co[p] EXCEPT
                                   !.tx.enrollments = @ \cup {row},
                                   !.wrote.enrollments = @ \cup {row},
                                   !.cartItemsToDelete = Append(@, courseId)],
                                 co[p].i + 1)]
                   /\ UNCHANGED <<tables, orders_order_id_seq, svc, purchase,
                                  util, cartSvc, pre>>

\* two transactions wait for each other's uncommitted enrollment: the
\* database aborts one of them with "deadlock detected"
DeadlockAbort(p) ==
  /\ co[p].pc = "enroll"
  /\ \E q \in Procs :
       /\ co[q].pc = "enroll"
       /\ WaitsFor(p, q, co[p].idUser, co[p].cartItems[co[p].i])
       /\ WaitsFor(q, p, co[q].idUser, co[q].cartItems[co[q].i])
  /\ RollbackTransaction(p, "deadlock detected")

\* mutant: DELETE FROM cart_items WHERE cart_id = $1, the whole cart
DeleteWholeCart(p) ==
  /\ co[p].pc = "deleteCartItems"
  /\ LET rows == {r \in cart_items : r.cart_id = co[p].cartId}
     IN co' = [co EXCEPT ![p].pc = "commit",
                         ![p].tx.cart_del = @ \cup rows,
                         ![p].wrote.cart_del = @ \cup rows]
  /\ UNCHANGED <<tables, seqs, svc, purchase, util, cartSvc, pre>>

\* DELETE FROM cart_items WHERE cart_id = $1 AND course_id = ANY($2)
DeleteCartItems(p) ==
  /\ co[p].pc = "deleteCartItems"
  /\ LET rows == {r \in cart_items : /\ r.cart_id = co[p].cartId
                                     /\ includes(co[p].cartItemsToDelete, r.course_id)}
     IN co' = [co EXCEPT ![p].pc = "commit",
                         ![p].tx.cart_del = @ \cup rows,
                         ![p].wrote.cart_del = @ \cup rows]
  /\ UNCHANGED <<tables, seqs, svc, purchase, util, cartSvc, pre>>

\* mutant: the discount segment of the order info is never looked at
AfterCopyNoDiscount(c) == [c EXCEPT !.pc = "done"]

\* completeOrder lines 355-362 after copyCartToOrder returned
AfterCopy(c) ==
  IF Len(c.infoOrder) = 3 /\ c.infoOrder[3] # << >>
  THEN [c EXCEPT !.pc = "deleteDiscount"]
  ELSE [c EXCEPT !.pc = "done"]

\* mutant: an order without items is not kept
CommitSkipsEmptyOrder(p) ==
  /\ co[p].pc = "commit"
  /\ orders' = IF co[p].tx.order_items = {} THEN orders ELSE orders \cup co[p].tx.orders
  /\ order_items' = order_items \cup co[p].tx.order_items
  /\ enrollments' = enrollments \cup co[p].tx.enrollments
  /\ cart_items' = cart_items \ co[p].tx.cart_del
  /\ co' = [co EXCEPT ![p] = AfterCopy(Return(co[p]))]
  /\ UNCHANGED <<course, discount, carts, student_discount, seqs, svc,
                 purchase, util, cartSvc, pre>>

\* queryRunner.commitTransaction(): the writes of the transaction become
\* visible together
CommitTransaction(p) ==
  /\ co[p].pc = "commit"
  /\ orders' = orders \cup co[p].tx.orders
  /\ order_items' = order_items \cup co[p].tx.order_items
  /\ enrollments' = enrollments \cup co[p].tx.enrollments
  /\ cart_items' = cart_items \ co[p].tx.cart_del
  /\ co' = [co EXCEPT ![p] = AfterCopy(Return(co[p]))]
  /\ UNCHANGED <<course, discount, carts, student_discount, seqs, svc,
                 purchase, util, cartSvc, pre>>

\* mutant: the failure is caught, the enrollments inserted so far are kept
StatementFailsKeepsEnrollments(p) ==
  /\ co[p].pc \in {"getCartItems", "createOrder", "checkEnrollment",
                   "getCoursePrice", "enroll",
                   "deleteCartItems", "commit"}
  /\ co' = [co EXCEPT ![p] = Throw(co[p], "storage failure")]
  /\ enrollments' = enrollments \cup co[p].tx.enrollments
  /\ UNCHANGED <<course, discount, carts, cart_items, orders, order_items,
                 student_discount, seqs, svc, purchase, util, cartSvc, pre>>

\* a statement of the transaction (or its commit) fails: timeout, lost
\* connection; caught by the catch of copyCartToOrder
StatementFails(p) ==
  /\ co[p].pc \in {"getCartItems", "createOrder", "checkEnrollment",
                   "getCoursePrice", "enroll",
                   "deleteCartItems", "commit"}
  /\ RollbackTransaction(p, "storage failure")

\* OrderService.deleteDiscountFromStudent: DELETE FROM student_discount
\* WHERE student_id = $1 AND discount_id = $2
DeleteDiscountFromStudent(p) ==
  /\ co[p].pc = "deleteDiscount"
  /\ LET idDiscount == parseInt(co[p].infoOrder[3])
     IN student_discount' =
          IF idDiscount # NaN
          THEN {r \in student_discount :
                  ~(r.student_id = co[p].idUser /\ r.discount_id = idDiscount)}
          ELSE student_discount
  /\ co' = [co EXCEPT ![p].pc = "done"]
  /\ UNCHANGED <<course, discount, carts, cart_items, orders, order_items,
                 enrollments, seqs, svc, purchase, util, cartSvc, pre>>

\* mutant: the catch of deleteDiscountFromStudent rethrows
DeleteDiscountThrows(p) ==
  /\ co[p].pc = "deleteDiscount"
  /\ co' = [co EXCEPT ![p] = [Throw(co[p], "storage failure") EXCEPT !.fault = TRUE]]
  /\ UNCHANGED <<tables, seqs, svc, purchase, util, cartSvc, pre>>

\* the DELETE of deleteDiscountFromStudent fails: the error is logged, not
\* thrown, and completeOrder returns normally
DeleteDiscountFails(p) ==
  /\ co[p].pc = "deleteDiscount"
  /\ co' = [co EXCEPT ![p].pc = "done", ![p].fault = TRUE]
  /\ UNCHANGED <<tables, seqs, svc, purchase, util, cartSvc, pre>>

\* ------------------------- addStudentToCourse (EnrollmentService, StudentService)
IdleSvc == [pc |-> "idle", studentId |-> 0, courseId |-> 0]

\* enrollmentRepo.findOne({studentId, courseId}) /
\* SELECT * FROM enrollments WHERE student_id = $1 AND course_id = $2
FindExistingEnrollment(studentId, courseId) ==
  {e \in enrollments : e.student_id = studentId /\ e.course_id = courseId}

\* the reads of addStudentToCourse.  EnrollmentService: userRepo.findOne (every
\* student id of the model is a user), courseRepo.findOne ('Course not found'
\* for a course that is not in the catalog), then the enrollment lookup, which
\* returns the existing row; StudentService: the enrollment lookup, which
\* throws 'Student is already enrolled in this course'
AddStudentToCourse(service, studentId, courseId) ==
  /\ svc.pc = "idle"
  /\ svc' = IF service = "EnrollmentService"
               /\ ~\E r \in course : r.course_id = courseId
              THEN IdleSvc
            ELSE IF FindExistingEnrollment(studentId, courseId) # {}
              THEN IdleSvc
            ELSE [pc |-> "save", studentId |-> studentId, courseId |-> courseId]
  /\ UNCHANGED <<tables, seqs, co, purchase, util, cartSvc, pre>>

\* enrollmentRepo.save(enrollment) / INSERT INTO enrollments ... RETURNING *
SaveEnrollment ==
  /\ svc.pc = "save"
  /\ \A q \in Procs : ~WaitsFor(0, q, svc.studentId, svc.courseId)
  /\ IF UniqueStudentCourse(enrollments, svc.studentId, svc.courseId)
       THEN /\ svc' = IdleSvc
            /\ UNCHANGED <<enrollments, enrollments_enrollment_id_seq>>
     ELSE LET id == enrollments_enrollment_id_seq + 1
          IN /\ enrollments' = enrollments \cup
                   {[enrollment_id |-> id, student_id |-> svc.studentId,
                     course_id |-> svc.courseId]}
             /\ enrollments_enrollment_id_seq' = id
             /\ svc' = IdleSvc
  /\ UNCHANGED <<course, discount, carts, cart_items, orders, order_items,
                 student_discount, orders_order_id_seq, co, purchase, util, cartSvc, pre>>

\* ---------------------- checkoutOrder, processingPurchaseOrder, createVnPayPayment
RECURSIVE SumPrices(_, _)
SumPrices(idCourses, k) ==
  IF k > Len(idCourses) THEN 0
  ELSE (CHOOSE r \in course : r.course_id = idCourses[k]).price
       + SumPrices(idCourses, k + 1)

\* mutant: a course that is not in the catalog, or a discount that does not
\* exist, counts as 0
checkoutOrderLenient(idCourses, idDiscount) ==
  LET known == SelectSeq(idCourses, LAMBDA id : \E r \in course : r.course_id = id)
      totalPrice == SumPrices(known, 1)
      discountPrice ==
        IF \E d \in discount : d.discount_id = idDiscount
        THEN (CHOOSE d \in discount : d.discount_id = idDiscount).value ELSE 0
  IN [error |-> "", totalPrice |-> totalPrice, discountPrice |-> discountPrice,
      finalPrice |-> totalPrice - discountPrice]

\* OrderService.checkoutOrder(checkoutReq)
checkoutOrder(idCourses, idDiscount) ==
  IF \E k \in 1..Len(idCourses) : ~\E r \in course : r.course_id = idCourses[k]
    THEN [error |-> "Course not found", totalPrice |-> 0, discountPrice |-> 0,
          finalPrice |-> 0]
  ELSE IF idDiscount # Null /\ ~\E d \in discount : d.discount_id = idDiscount
    THEN [error |-> "Discount does not exist", totalPrice |-> 0,
          discountPrice |-> 0, finalPrice |-> 0]
  ELSE LET totalPrice == SumPrices(idCourses, 1)
           discountPrice ==
             IF idDiscount = Null THEN 0
             ELSE (CHOOSE d \in discount : d.discount_id = idDiscount).value
       IN [error |-> "", totalPrice |-> totalPrice, discountPrice |-> discountPrice,
           finalPrice |-> totalPrice - discountPrice]

\* the order info string of processingPurchaseOrder (lines 78-90)
OrderInfo(idUser, idCourses, idDiscount) ==
  NumToStr(idUser) \o <<"#", "#">>
  \o Concat([k \in 1..Len(idCourses) |-> NumToStr(idCourses[k]) \o <<"#">>])
  \o (IF idDiscount # Null THEN <<"#">> \o NumToStr(idDiscount) ELSE << >>)

\* PaymentService.createVnPayPayment: the parameters of the payment URL and
\* their signature
createVnPayPayment(amount, orderInfo) ==
  LET vnpParamsMap == << <<vnp_Amount, NumToStr(amount * 100)>>,
                         <<vnp_OrderInfo, orderInfo>> >>
  IN [vnpParamsMap |-> vnpParamsMap,
      queryUrl |-> getPaymentURL(vnpParamsMap, TRUE),
      vnp_SecureHash |-> SecureHashOf(vnpParamsMap)]

NoPayment == [vnpParamsMap |-> << >>, queryUrl |-> << >>, vnp_SecureHash |-> << >>]

\* mutant: only the final price is compared
PricesMatchFinalOnly(checkoutResponse, prices) ==
  checkoutResponse.finalPrice = prices.finalPrice

\* lines 97-99: the prices the buyer declared against the computed ones
PricesMatch(checkoutResponse, prices) ==
  /\ checkoutResponse.totalPrice = prices.totalPrice
  /\ checkoutResponse.finalPrice = prices.finalPrice
  /\ checkoutResponse.discountPrice = prices.discountPrice

\* OrderService.processingPurchaseOrder(purchaseOrderDTO, request)
ProcessingPurchaseOrder(idUser, idCourses, idDiscount, prices) ==
  LET checkoutResponse == checkoutOrder(idCourses, idDiscount)
      orderInfo == OrderInfo(idUser, idCourses, idDiscount)
      mismatch == ~PricesMatch(checkoutResponse, prices)
  IN /\ purchase' =
          [idUser |-> idUser, idCourses |-> idCourses, idDiscount |-> idDiscount,
           prices |-> prices, checkoutResponse |-> checkoutResponse,
           error |-> IF checkoutResponse.error # "" THEN checkoutResponse.error
                     ELSE IF mismatch THEN "Price mismatch error" ELSE "",
           payment |-> IF checkoutResponse.error = "" /\ ~mismatch
                       THEN createVnPayPayment(checkoutResponse.finalPrice, orderInfo)
                       ELSE NoPayment]
     /\ UNCHANGED <<tables, seqs, co, svc, util, cartSvc, pre>>

NoPurchase == [idUser |-> 0, idCourses |-> << >>, idDiscount |-> Null,
               prices |-> [totalPrice |-> 0, discountPrice |-> 0, finalPrice |-> 0],
               checkoutResponse |-> [error |-> "", totalPrice |-> 0,
                                     discountPrice |-> 0, finalPrice |-> 0],
               error |-> "", payment |-> NoPayment]

\* ------------------------------------------------------------------ inputs
\* the callback the gateway sends for a charge: the parameters signed with
\* the shared secret
GatewayCallback(amount, orderInfo) ==
  LET params == << <<vnp_Amount, NumToStr(amount)>>, <<vnp_OrderInfo, orderInfo>> >>
  IN Append(params, <<vnp_SecureHash, SecureHashOf(params)>>)

\* the same callback with one parameter replaced, the signature left as it was
WithParam(params, key, value) ==
  [k \in 1..Len(params) |-> IF params[k][1] = key THEN <<key, value>> ELSE params[k]]

\* charges of the gateway: the buyer, the purchase list, the discount used
\* and the amount charged in minor units
ChargeA == [name |-> "A", idUser |-> 12, idCourses |-> <<10, 20>>, idDiscount |-> 7,
            amount |-> 24500]
ChargeB == [name |-> "B", idUser |-> 12, idCourses |-> <<10>>, idDiscount |-> Null,
            amount |-> 10000]
ChargeD == [name |-> "D", idUser |-> 13, idCourses |-> <<20>>, idDiscount |-> 7,
            amount |-> 14500]

ChargeE == [name |-> "E", idUser |-> 12, idCourses |-> <<20>>, idDiscount |-> Null,
            amount |-> 15000]

Charges == {ChargeA, ChargeB, ChargeD, ChargeE}

CallbackOf(ch) ==
  GatewayCallback(ch.amount, OrderInfo(ch.idUser, ch.idCourses, ch.idDiscount))

CallbackA == CallbackOf(ChargeA)
CallbackB == CallbackOf(ChargeB)
CallbackD == CallbackOf(ChargeD)
CallbackE == CallbackOf(ChargeE)

\* the requests completeOrder receives, by name: the callbacks of the charges;
\* forgeries: A with the amount altered, A without its signature, B with the
\* signature of A; and signed callbacks whose order info is "13##20x##7" and
\* "13##abc#20"
Requests ==
  [A |-> CallbackA, B |-> CallbackB, D |-> CallbackD, E |-> CallbackE,
   AlteredAmount |-> WithParam(CallbackA, vnp_Amount, NumToStr(24501)),
   NoHash |-> DeleteKey(CallbackA, vnp_SecureHash),
   SwappedHash |-> WithParam(CallbackB, vnp_SecureHash, Lookup(CallbackA, vnp_SecureHash)),
   NonInteger |-> GatewayCallback(14500,
                    <<"1", "3", "#", "#", "2", "0", "x", "#", "#", "7">>),
   IgnoredToken |-> GatewayCallback(15000,
                    <<"1", "3", "#", "#", "a", "b", "c", "#", "2", "0">>)]

ConcurrentCallbacks == {"A"}

SequentialCallbacks == {"A", "B", "D", "AlteredAmount", "NoHash", "SwappedHash"}

MalformedCallbacks == {"NonInteger", "IgnoredToken"}

\* callbacks of different purchase attempts: another student, or the same
\* student with no course in common
DisjointCallbacks == {"B", "D", "E"}

Catalogs == {{[course_id |-> 10, price |-> 100], [course_id |-> 20, price |-> 150]},
             {[course_id |-> 10, price |-> 100]}}

Discounts == {[discount_id |-> 7, value |-> 5], [discount_id |-> 9, value |-> 120]}

\* ------------------------------------------------------- specifications
InitLocals ==
  /\ orders = {}
  /\ order_items = {}
  /\ orders_order_id_seq = 0
  /\ discount = Discounts
  /\ co = [p \in Procs |-> IdleCo]
  /\ svc = IdleSvc
  /\ purchase = NoPurchase
  /\ util = NoUtil
  /\ cartSvc = [p \in Procs |-> IdleCartCall]
  /\ pre = NoSnapshot

\* concurrent callbacks and enrollment calls for one student with cart 10, 20
Init ==
  /\ InitLocals
  /\ course = {[course_id |-> 10, price |-> 100], [course_id |-> 20, price |-> 150]}
  /\ carts = {[cart_id |-> 1, student_id |-> 12]}
  /\ cart_items = {[cart_id |-> 1, course_id |-> 10], [cart_id |-> 1, course_id |-> 20]}
  /\ enrollments = {}
  /\ enrollments_enrollment_id_seq = 0
  /\ student_discount = {[student_id |-> 12, discount_id |-> 7]}

Step(p) ==
  \/ GetCartItems(p)
  \/ CreateOrder(p)
  \/ CheckEnrollment(p)
  \/ GetCoursePrice(p)
  \/ Enroll(p)
  \/ DeleteCartItems(p)
  \/ CommitTransaction(p)
  \/ DeleteDiscountFromStudent(p)

\* invocations take the process slots in order
FreeSlot(p) == \A q \in Procs : q < p => co[q].pc # "idle"

Next ==
  \/ \E p \in Procs, request \in ConcurrentCallbacks :
       FreeSlot(p) /\ CompleteOrder(p, request, Requests[request])
  \/ \E p \in Procs : Step(p)
  \/ \E p \in Procs : DeadlockAbort(p)
  \/ \E service \in {"EnrollmentService", "StudentService"}, courseId \in CourseIds :
       AddStudentToCourse(service, 12, courseId)
  \/ SaveEnrollment

Spec == Init /\ [][Next]_vars

\* callbacks delivered one after the other, from any starting state
InitSeq ==
  /\ InitLocals
  /\ course \in Catalogs
  /\ carts \in {{[cart_id |-> 1, student_id |-> 12], [cart_id |-> 2, student_id |-> 13]},
                {[cart_id |-> 2, student_id |-> 13]}}
  /\ cart_items \in SUBSET {[cart_id |-> 1, course_id |-> 10],
                            [cart_id |-> 1, course_id |-> 20],
                            [cart_id |-> 2, course_id |-> 20]}
  /\ \A r \in cart_items : \E c \in carts : c.cart_id = r.cart_id
  /\ enrollments \in {{}, {[enrollment_id |-> 1, student_id |-> 12, course_id |-> 10]}}
  /\ enrollments_enrollment_id_seq = Cardinality(enrollments)
  /\ student_discount = {[student_id |-> 12, discount_id |-> 7],
                         [student_id |-> 13, discount_id |-> 7]}

NextSeq ==
  \/ \E p \in Procs, request \in SequentialCallbacks :
       /\ FreeSlot(p)
       /\ \A q \in Procs : ~Active(co[q])
       /\ CompleteOrder(p, request, Requests[request])
  \/ \E p \in Procs : Step(p)
  \/ \E p \in Procs : StatementFails(p)
  \/ \E p \in Procs : DeleteDiscountFails(p)

SeqSpec == InitSeq /\ [][NextSeq]_vars

\* signed callbacks with a malformed order info, one after the other
NextDecode ==
  \/ \E p \in Procs, request \in MalformedCallbacks :
       /\ FreeSlot(p)
       /\ \A q \in Procs : ~Active(co[q])
       /\ CompleteOrder(p, request, Requests[request])
  \/ \E p \in Procs : Step(p)

DecodeSpec == InitSeq /\ [][NextDecode]_vars

\* requests for a payment URL, from any starting state
PurchaseLists == {<< >>, <<10>>, <<20>>, <<10, 20>>, <<20, 10>>}

PriceDeltas == {0 - 1, 0, 1}

NextPurchase ==
  \E idUser \in StudentIds, idCourses \in PurchaseLists,
     idDiscount \in {Null, 7, 8, 9}, dt \in PriceDeltas, dd \in PriceDeltas,
     df \in PriceDeltas :
    LET quote == checkoutOrder(idCourses, idDiscount)
    IN /\ purchase = NoPurchase
       /\ ProcessingPurchaseOrder(idUser, idCourses, idDiscount,
         [totalPrice |-> quote.totalPrice + dt,
          discountPrice |-> quote.discountPrice + dd,
          finalPrice |-> quote.finalPrice + df])

PurchaseSpec == InitSeq /\ [][NextPurchase]_vars

\* the charge a callback was sent for
ChargeOf(request) == CHOOSE ch \in Charges : ch.name = request

\* two charges with a (student, course) pair in common
Overlap(a, b) ==
  a.idUser = b.idUser /\ \E i \in 1..Len(a.idCourses) : includes(b.idCourses, a.idCourses[i])

\* callbacks of different purchase attempts running concurrently, from any
\* starting state. All of them are received before the first commit:
\* completeOrder reads only its parameters and table carts before its
\* transaction reads cart_items, so a later arrival behaves as this one.
\* No deadlock detection: a wait needs two inserts of the same pair
NextDisjoint ==
  \/ \E p \in Procs, request \in DisjointCallbacks :
       /\ FreeSlot(p)
       /\ \A q \in Procs :
            co[q].pc # "idle" => ~Overlap(ChargeOf(co[q].request), ChargeOf(request))
       /\ (\A q \in Procs : co[q].pc = "idle") \/ Snapshot = pre
       /\ CompleteOrder(p, request, Requests[request])
  \/ \E p \in Procs : Step(p)

DisjointSpec == InitSeq /\ [][NextDisjoint]_vars

\* a request for a payment URL, then the callback of the gateway for the
\* payment issued: the signed parameters of the URL with their signature,
\* delivered once
PaidCallback ==
  Append(purchase.payment.vnpParamsMap,
         <<vnp_SecureHash, purchase.payment.vnp_SecureHash>>)

NextPay ==
  \/ NextPurchase
  \/ \E p \in Procs :
       /\ purchase.payment # NoPayment
       /\ \A q \in Procs : co[q].pc = "idle"
       /\ CompleteOrder(p, "Paid", PaidCallback)
  \/ \E p \in Procs : Step(p)

PaySpec == InitSeq /\ [][NextPay]_vars

\* calls of the VNPayUtil functions on their own
vnp_amount == <<"v", "n", "p", "_", "a", "m", "o", "u", "n", "t">>

SignedValues ==
  {<< >>, <<"1", "0", "0">>, <<"1", "2", "#", "#", "1", "0", "#">>,
   <<"a", " ", "b">>, <<"%", "2", "0">>, <<"k", "=", "v", "&", "x">>}

Alphabet == {"1", "2", "a", "#", "&", "=", " ", "%"}

WithChar(str, i, ch) == [str EXCEPT ![i] = ch]

\* a parameter set signed as createVnPayPayment signs it, presented to the
\* check of completeOrder as signed and with one character of one value changed
VerifySigned ==
  /\ util = NoUtil
  /\ \E amount \in SignedValues, orderInfo \in SignedValues,
     key \in {vnp_Amount, vnp_OrderInfo}, ch \in Alphabet :
    LET vnpParamsMap == << <<vnp_Amount, amount>>, <<vnp_OrderInfo, orderInfo>> >>
        paymentParams == Append(vnpParamsMap,
                                <<vnp_SecureHash, SecureHashOf(vnpParamsMap)>>)
        value == Lookup(vnpParamsMap, key)
    IN \E i \in 1..Len(value) :
         LET altered == WithParam(paymentParams, key, WithChar(value, i, ch))
         IN /\ value[i] # ch
            /\ util' = [op |-> "verify", paramsMap |-> paymentParams,
                        altered |-> altered,
                        result |-> VerifySecureHash(paymentParams),
                        alteredResult |-> VerifySecureHash(altered)]
            /\ UNCHANGED <<tables, seqs, co, svc, purchase, cartSvc, pre>>

CanonKeys == <<vnp_Amount, vnp_amount, vnp_OrderInfo>>

CanonValues == {<< >>, null, Undefined, <<"1">>, <<"a", " ", "b">>}

InsertionOrders ==
  {o \in [1..Len(CanonKeys) -> 1..Len(CanonKeys)] :
     \A i, j \in 1..Len(CanonKeys) : o[i] = o[j] => i = j}

\* getPaymentURL on two maps with the same non-empty entries: inserted in
\* two orders, the second map without some of the entries whose value is empty
Canonicalize ==
  /\ util = NoUtil
  /\ \E values \in [1..Len(CanonKeys) -> CanonValues], first \in InsertionOrders,
     second \in InsertionOrders, absent \in SUBSET (1..Len(CanonKeys)),
     encodeKey \in BOOLEAN :
    LET entry(k) == <<CanonKeys[k], values[k]>>
        a == [k \in 1..Len(CanonKeys) |-> entry(first[k])]
        b == SelectSeq([k \in 1..Len(CanonKeys) |-> entry(second[k])],
                       LAMBDA e : \A k \in absent : e[1] # CanonKeys[k])
    IN /\ \A k \in absent : values[k] \in {<< >>, null, Undefined}
       /\ util' = [op |-> "canon", paramsMap |-> a, altered |-> b,
                   result |-> getPaymentURL(a, encodeKey),
                   alteredResult |-> getPaymentURL(b, encodeKey)]
       /\ UNCHANGED <<tables, seqs, co, svc, purchase, cartSvc, pre>>

NextUtil == VerifySigned \/ Canonicalize

UtilSpec == Init /\ [][NextUtil]_vars

\* the callback the gateway sends for charge A when the buyer cancelled the
\* payment: the result fields say so, and the gateway signs them with the rest
vnp_ResponseCode ==
  <<"v", "n", "p", "_", "R", "e", "s", "p", "o", "n", "s", "e", "C", "o", "d", "e">>
vnp_TransactionStatus ==
  <<"v", "n", "p", "_", "T", "r", "a", "n", "s", "a", "c", "t", "i", "o", "n",
    "S", "t", "a", "t", "u", "s">>

CancelledCallback ==
  LET params == << <<vnp_Amount, NumToStr(ChargeA.amount)>>,
                   <<vnp_OrderInfo, Lookup(CallbackA, vnp_OrderInfo)>>,
                   <<vnp_ResponseCode, <<"2", "4">> >>,
                   <<vnp_TransactionStatus, <<"0", "2">> >> >>
  IN Append(params, <<vnp_SecureHash, SecureHashOf(params)>>)

\* callbacks of a cancelled payment, one after the other
NextCancelled ==
  \/ \E p \in Procs :
       /\ FreeSlot(p)
       /\ \A q \in Procs : ~Active(co[q])
       /\ CompleteOrder(p, "Cancelled", CancelledCallback)
  \/ \E p \in Procs : Step(p)

CancelledSpec == InitSeq /\ [][NextCancelled]_vars

\* a purchase request that declares the prices checkoutOrder quotes
QuotedPurchase ==
  /\ purchase = NoPurchase
  /\ \E idUser \in StudentIds, idCourses \in PurchaseLists,
        idDiscount \in {Null, 7, 8, 9} :
       LET quote == checkoutOrder(idCourses, idDiscount)
       IN ProcessingPurchaseOrder(idUser, idCourses, idDiscount,
            [totalPrice |-> quote.totalPrice,
             discountPrice |-> quote.discountPrice,
             finalPrice |-> quote.finalPrice])

\* a purchase request made before or after the callback of charge A has been
\* processed, while no callback is being processed
NextLater ==
  \/ \E p \in Procs :
       /\ \A q \in Procs : co[q].pc = "idle"
       /\ CompleteOrder(p, "A", Requests["A"])
  \/ \E p \in Procs : Step(p)
  \/ /\ \A q \in Procs : ~Active(co[q])
     /\ QuotedPurchase

LaterSpec == InitSeq /\ [][NextLater]_vars

\* ---------------------------------------------------------- CartService
\* Every statement of CartService runs on the plain connection, outside any
\* transaction, so each one is a step of its own. The tables are sets of
\* rows: an INSERT of a row equal to one already in the table is rejected and
\* the call returns null from its catch.
CartsOf(studentId) == {c \in carts : c.student_id = studentId}

MaxCartId == IF carts = {} THEN 0
             ELSE CHOOSE m \in {c.cart_id : c \in carts} :
                    \A c \in carts : c.cart_id <= m

ReturnCart(c, outcome) == [c EXCEPT !.pc = "done", !.result = outcome]

\* createCart(studentId) is called
createCart(p, studentId) ==
  /\ cartSvc[p].pc = "idle"
  /\ cartSvc' = [cartSvc EXCEPT ![p] =
       [IdleCartCall EXCEPT !.op = "createCart", !.pc = "selectCart",
                            !.studentId = studentId,
                            !.had = (CartsOf(studentId) # {})]]
  /\ UNCHANGED <<tables, seqs, co, svc, purchase, util, pre>>

\* addCourseToCart(studentId, courseId) is called
addCourseToCart(p, studentId, courseId) ==
  /\ cartSvc[p].pc = "idle"
  /\ cartSvc' = [cartSvc EXCEPT ![p] =
       [IdleCartCall EXCEPT !.op = "addCourseToCart", !.pc = "getCartByStudentId",
                            !.studentId = studentId, !.courseId = courseId,
                            !.had = (\E c \in CartsOf(studentId) :
                                       [cart_id |-> c.cart_id, course_id |-> courseId]
                                         \in cart_items)]]
  /\ UNCHANGED <<tables, seqs, co, svc, purchase, util, pre>>

\* SELECT * FROM carts WHERE student_id = $1 LIMIT 1, in addCourseToCart
getCartByStudentId(p) ==
  /\ cartSvc[p].pc = "getCartByStudentId"
  /\ \/ /\ CartsOf(cartSvc[p].studentId) = {}
        /\ cartSvc' = [cartSvc EXCEPT ![p].pc = "selectCart"]
     \/ \E c \in CartsOf(cartSvc[p].studentId) :
          cartSvc' = [cartSvc EXCEPT ![p].pc = "selectItem", ![p].cart = c.cart_id]
  /\ UNCHANGED <<tables, seqs, co, svc, purchase, util, pre>>

\* the cart has been found or created: createCart returns it, addCourseToCart
\* goes on with it
WithCart(c, cartId, outcome) ==
  IF c.op = "createCart" THEN [ReturnCart(c, outcome) EXCEPT !.cart = cartId]
  ELSE [c EXCEPT !.pc = "selectItem", !.cart = cartId]

\* SELECT * FROM carts WHERE student_id = $1 LIMIT 1, in createCart
SelectExistingCart(p) ==
  /\ cartSvc[p].pc = "selectCart"
  /\ \/ /\ CartsOf(cartSvc[p].studentId) = {}
        /\ cartSvc' = [cartSvc EXCEPT ![p].pc = "selectMax"]
     \/ \E c \in CartsOf(cartSvc[p].studentId) :
          cartSvc' = [cartSvc EXCEPT ![p] = WithCart(@, c.cart_id, "existing")]
  /\ UNCHANGED <<tables, seqs, co, svc, purchase, util, pre>>

\* SELECT COALESCE(MAX(cart_id), 0) + 1 as next_id FROM carts
SelectNextCartId(p) ==
  /\ cartSvc[p].pc = "selectMax"
  /\ cartSvc' = [cartSvc EXCEPT ![p].pc = "insertCart",
                                ![p].nextCartId = MaxCartId + 1]
  /\ UNCHANGED <<tables, seqs, co, svc, purchase, util, pre>>

\* INSERT INTO carts (cart_id, student_id, ...) VALUES ($1, $2, ...)
InsertCart(p) ==
  /\ cartSvc[p].pc = "insertCart"
  /\ LET row == [cart_id |-> cartSvc[p].nextCartId,
                 student_id |-> cartSvc[p].studentId]
     IN IF row \in carts
        THEN /\ cartSvc' = [cartSvc EXCEPT ![p] = ReturnCart(@, "null")]
             /\ UNCHANGED carts
        ELSE /\ carts' = carts \cup {row}
             /\ cartSvc' = [cartSvc EXCEPT ![p] =
                  [WithCart(@, row.cart_id, "created")
                     EXCEPT !.inserted = @ \cup {row}]]
  /\ UNCHANGED <<course, discount, cart_items, orders, order_items, enrollments,
                 student_discount, seqs, co, svc, purchase, util, pre>>

\* SELECT * FROM cart_items WHERE cart_id = $1 AND course_id = $2
SelectExistingItem(p) ==
  /\ cartSvc[p].pc = "selectItem"
  /\ cartSvc' = [cartSvc EXCEPT ![p] =
       IF [cart_id |-> @.cart, course_id |-> @.courseId] \in cart_items
       THEN ReturnCart(@, "existing")
       ELSE [@ EXCEPT !.pc = "insertItem"]]
  /\ UNCHANGED <<tables, seqs, co, svc, purchase, util, pre>>

\* INSERT INTO cart_items (cart_id, course_id) VALUES ($1, $2)
InsertCartItem(p) ==
  /\ cartSvc[p].pc = "insertItem"
  /\ LET row == [cart_id |-> cartSvc[p].cart, course_id |-> cartSvc[p].courseId]
     IN IF row \in cart_items
        THEN /\ cartSvc' = [cartSvc EXCEPT ![p] = ReturnCart(@, "null")]
             /\ UNCHANGED cart_items
        ELSE /\ cart_items' = cart_items \cup {row}
             /\ cartSvc' = [cartSvc EXCEPT ![p] =
                  [ReturnCart(@, "created") EXCEPT !.inserted = @ \cup {row}]]
  /\ UNCHANGED <<course, discount, carts, orders, order_items, enrollments,
                 student_discount, seqs, co, svc, purchase, util, pre>>

CartStep(p) ==
  \/ getCartByStudentId(p)
  \/ SelectExistingCart(p)
  \/ SelectNextCartId(p)
  \/ InsertCart(p)
  \/ SelectExistingItem(p)
  \/ InsertCartItem(p)

\* no student has a cart yet, or student 13 alone has one
InitCart ==
  /\ InitLocals
  /\ course = {[course_id |-> 10, price |-> 100], [course_id |-> 20, price |-> 150]}
  /\ carts \in {{}, {[cart_id |-> 1, student_id |-> 13]}}
  /\ cart_items \in SUBSET {[cart_id |-> 1, course_id |-> 20]}
  /\ \A r \in cart_items : \E c \in carts : c.cart_id = r.cart_id
  /\ enrollments = {}
  /\ enrollments_enrollment_id_seq = 0
  /\ student_discount = {}

\* calls take the process slots in order
FreeCartSlot(p) == \A q \in Procs : q < p => cartSvc[q].pc # "idle"

NextCart ==
  \/ \E p \in Procs, studentId \in StudentIds :
       FreeCartSlot(p) /\ createCart(p, studentId)
  \/ \E p \in Procs, studentId \in StudentIds, courseId \in CourseIds :
       FreeCartSlot(p) /\ addCourseToCart(p, studentId, courseId)
  \/ \E p \in Procs : CartStep(p)

CartSpec == InitCart /\ [][NextCart]_vars

\* ------------------------------------------------------------------ claims
Pairs(rows) == {<<e.student_id, e.course_id>> : e \in rows}

Committed(p) == co[p].pc \in {"deleteDiscount", "done"}

Terminated(p) == co[p].pc \in {"done", "failed"}

UniqueViolation == "duplicate key value violates unique constraint"

\* C1: in every reachable state there is at most one enrollments row for each
\* (student_id, course_id), whatever the interleaving of completeOrder and the
\* two addStudentToCourse services
C1_OneEnrollmentPerPair ==
  \A e1, e2 \in enrollments :
    (e1.student_id = e2.student_id /\ e1.course_id = e2.course_id) => e1 = e2

\* witness of C1: a callback lost the race for a pair that addStudentToCourse
\* inserted
C1_Witness ==
  /\ \E p \in Procs : co[p].error = UniqueViolation
  /\ \E e \in enrollments :
       /\ e.student_id = 12 /\ e.course_id = 10
       /\ \A p \in Procs : e \notin co[p].wrote.enrollments

\* C2: two invocations with identical parameters never both commit an insert
\* of an enrollment for the same (student_id, course_id)
C2_AtMostOneCommitsThePair ==
  \A p, q \in Procs :
    (/\ p # q
     /\ co[p].request = co[q].request
     /\ Committed(p) /\ Committed(q))
    => Pairs(co[p].wrote.enrollments) \cap Pairs(co[q].wrote.enrollments) = {}

\* witness of C2: of two overlapping identical callbacks one committed its
\* enrollments and the other was refused the same pair
C2_Witness ==
  \E p, q \in Procs :
    /\ p # q
    /\ co[p].request = "A" /\ co[q].request = "A"
    /\ Committed(p) /\ co[p].wrote.enrollments # {}
    /\ co[q].error = UniqueViolation
    /\ Pairs(co[p].wrote.enrollments) \cap Pairs(co[q].wrote.enrollments) # {}

\* C3: an invocation whose INSERT INTO enrollments hits the uniqueness
\* constraint treats it as "already enrolled" and does not fail
C3_ViolationIsNoOp ==
  \A p \in Procs : ~(co[p].pc = "failed" /\ co[p].error = UniqueViolation)

\* the latest invocation of completeOrder; in SeqSpec `pre` holds the tables
\* as they were when it started and nothing else has run since
Latest(p) == co[p].pc # "idle" /\ \A q \in Procs : q > p => co[q].pc = "idle"

TransactionErrors == {"invalid input syntax", "Cart not found", "No items in the cart",
                      "storage failure", UniqueViolation, "deadlock detected"}

\* C4: when copyCartToOrder fails after the transaction has started, orders,
\* order_items, enrollments and cart_items (and student_discount) are exactly
\* as they were before the invocation
C4_FailedTransactionLeavesNoTrace ==
  \A p \in Procs :
    (Latest(p) /\ co[p].pc = "failed" /\ co[p].error \in TransactionErrors)
    => Snapshot = pre

\* witness of C4: the transaction failed after it had inserted an order, an
\* order item and an enrollment, and after it had deleted from the cart
C4_Witness ==
  \E p \in Procs :
    /\ Latest(p) /\ co[p].pc = "failed" /\ co[p].error = "storage failure"
    /\ co[p].wrote.orders # {} /\ co[p].wrote.order_items # {}
    /\ co[p].wrote.enrollments # {} /\ co[p].wrote.cart_del # {}

\* the signature of a callback is absent or is not the HMAC of the canonical
\* string of the other parameters
SignatureInvalid(params) ==
  \/ ~\E k \in 1..Len(params) : params[k][1] = vnp_SecureHash /\ params[k][2] # << >>
  \/ Lookup(params, vnp_SecureHash)
       # hmacSHA512(secretKey, getPaymentURL(DeleteKey(params, vnp_SecureHash), FALSE))

\* the requests of the model whose signature is absent or wrong
InvalidRequests == {n \in DOMAIN Requests : SignatureInvalid(Requests[n])}

\* C5: completeOrder writes nothing when vnp_SecureHash is absent or differs
\* from the recomputed HMAC, in particular when vnp_Amount was altered
C5_InvalidSignatureWritesNothing ==
  \A p \in Procs :
    (co[p].pc # "idle" /\ co[p].request \in InvalidRequests)
    => /\ co[p].pc = "failed"
       /\ co[p].wrote = EmptyTx
       /\ Latest(p) => Snapshot = pre

\* witness of C5: the callback of a real charge with vnp_Amount altered and the
\* signature unchanged was rejected while the buyer had a full cart
C5_Witness ==
  \E p \in Procs :
    /\ Latest(p)
    /\ co[p].request = "AlteredAmount"
    /\ co[p].error = "vnp_SecureHash is invalid"
    /\ \E r \in cart_items : r.cart_id = 1 /\ r.course_id = 10
    /\ \E r \in cart_items : r.cart_id = 1 /\ r.course_id = 20
    /\ enrollments = {}

Range(seq) == {seq[k] : k \in 1..Len(seq)}

\* the course ids in the cart(s) of a student, in a snapshot of cart_items
CartCourses(items, studentId) ==
  {r.course_id : r \in {x \in items : \E c \in carts : /\ c.student_id = studentId
                                                      /\ c.cart_id = x.cart_id}}

\* C6: the same validly signed callback delivered again after the first
\* delivery committed, the purchase list being the cart contents, completes
\* without throwing
C6_RedeliveryDoesNotThrow ==
  \A p, q \in Procs, ch \in Charges :
    (/\ q = p + 1 /\ Latest(q)
     /\ co[p].request = ch.name /\ co[q].request = ch.name
     /\ co[p].pc = "done"
     /\ {r.course_id : r \in co[p].wrote.cart_del} = Range(ch.idCourses)
     /\ CartCourses(pre.cart_items, ch.idUser) = {})
    => co[q].pc # "failed"

\* C7: delivering a callback again right after it was delivered leaves the set
\* of enrollments rows as the first delivery left it
C7_RedeliveryKeepsEnrollments ==
  \A p, q \in Procs :
    (/\ q = p + 1 /\ Latest(q) /\ Terminated(q)
     /\ co[p].request = co[q].request
     /\ co[p].error # "storage failure")
    => enrollments = pre.enrollments

\* witness of C7: the first delivery enrolled the student, the second one of
\* the same callback committed as well
C7_Witness ==
  \E p, q \in Procs :
    /\ q = p + 1 /\ Latest(q) /\ co[q].pc = "done"
    /\ co[p].request = "A" /\ co[q].request = "A"
    /\ co[p].pc = "done" /\ co[p].wrote.enrollments # {}

\* C8: processingPurchaseOrder issues a payment URL only if totalPrice,
\* discountPrice and finalPrice declared by the buyer all equal what
\* checkoutOrder computes; when any of them deviates it fails with the price
\* mismatch error and createVnPayPayment is not called
C8_PaymentOnlyForMatchingPrices ==
  purchase # NoPurchase =>
    LET quote == checkoutOrder(purchase.idCourses, purchase.idDiscount)
        equal == /\ purchase.prices.totalPrice = quote.totalPrice
                 /\ purchase.prices.discountPrice = quote.discountPrice
                 /\ purchase.prices.finalPrice = quote.finalPrice
    IN /\ purchase.payment # NoPayment => (quote.error = "" /\ equal)
       /\ (quote.error = "" /\ ~equal)
            => (purchase.error = "Price mismatch error" /\ purchase.payment = NoPayment)

\* witness of C8: the quote is 250 / 5 / 245 and the buyer declared 244 as the
\* final price
C8_Witness ==
  /\ purchase.idCourses = <<10, 20>> /\ purchase.idDiscount = 7
  /\ purchase.checkoutResponse.finalPrice = 245
  /\ purchase.prices = [totalPrice |-> 250, discountPrice |-> 5, finalPrice |-> 244]
  /\ purchase.error = "Price mismatch error"
  /\ purchase.payment = NoPayment

PriceOf(courseId) == (CHOOSE r \in course : r.course_id = courseId).price

\* the purchase of a charge is exactly the cart, every course is in the
\* catalog and the student is in none of them, in the state `pre`
FreshPurchase(ch) ==
  /\ CartCourses(pre.cart_items, ch.idUser) = Range(ch.idCourses)
  /\ \A c \in Range(ch.idCourses) : \E r \in course : r.course_id = c
  /\ \A c \in Range(ch.idCourses) : <<ch.idUser, c>> \notin Pairs(pre.enrollments)

\* C9: for a cart that is exactly the purchase list, all courses existing and
\* none enrolled, a validly signed callback with a discount id yields one new
\* enrollment per course, one new order with total_price = vnp_Amount / 100,
\* one order item per course at the course's price, an empty cart and no
\* (student, discount) row in student_discount
C9_CompletedPurchase ==
  \A p \in Procs, ch \in Charges :
    (/\ Latest(p) /\ Terminated(p)
     /\ co[p].request = ch.name
     /\ ch.idDiscount # Null
     /\ FreshPurchase(ch)
     /\ co[p].error # "storage failure" /\ ~co[p].fault)
    => LET newEnrollments == enrollments \ pre.enrollments
           newOrders == orders \ pre.orders
           newItems == order_items \ pre.order_items
       IN /\ co[p].pc = "done"
          /\ Pairs(newEnrollments) = {<<ch.idUser, c>> : c \in Range(ch.idCourses)}
          /\ Cardinality(newEnrollments) = Cardinality(Range(ch.idCourses))
          /\ pre.enrollments \subseteq enrollments
          /\ Cardinality(newOrders) = 1
          /\ \A o \in newOrders :
               /\ o.student_id = ch.idUser
               /\ o.total_price * 100 = ch.amount
               /\ newItems = {[order_id |-> o.order_id, course_id |-> c,
                               price |-> PriceOf(c)] : c \in Range(ch.idCourses)}
          /\ pre.orders \subseteq orders /\ pre.order_items \subseteq order_items
          /\ CartCourses(cart_items, ch.idUser) = {}
          /\ student_discount = pre.student_discount
                \ {[student_id |-> ch.idUser, discount_id |-> ch.idDiscount]}

\* witness of C9: student 12, cart 10 and 20, discount 7, amount 24500
C9_Witness ==
  \E p \in Procs :
    /\ Latest(p) /\ co[p].pc = "done" /\ ~co[p].fault
    /\ co[p].request = "A"
    /\ FreshPurchase(ChargeA)
    /\ [student_id |-> 12, discount_id |-> 7] \in pre.student_discount
    /\ [student_id |-> 12, discount_id |-> 7] \notin student_discount
    /\ Cardinality(order_items) = 2 /\ Cardinality(enrollments) = 2

\* C10: a purchased course that is in the cart but no longer in the catalog is
\* skipped (no order item, no enrollment), the other purchased cart courses
\* are enrolled, and the transaction commits
C10_MissingCourseIsSkipped ==
  \A p \in Procs, ch \in Charges :
    (/\ Latest(p) /\ Terminated(p)
     /\ co[p].request = ch.name
     /\ co[p].error # "storage failure"
     /\ \E c \in Range(ch.idCourses) \cap CartCourses(pre.cart_items, ch.idUser) :
          ~\E r \in course : r.course_id = c)
    => /\ co[p].pc = "done"
       /\ \A c \in Range(ch.idCourses) \cap CartCourses(pre.cart_items, ch.idUser) :
            IF \E r \in course : r.course_id = c
            THEN <<ch.idUser, c>> \in Pairs(enrollments)
            ELSE /\ <<ch.idUser, c>> \notin Pairs(enrollments)
                 /\ ~\E it \in order_items \ pre.order_items : it.course_id = c

\* witness of C10: course 20 is gone, the cart holds 10 and 20, the callback
\* for both enrolled the student in 10 only
C10_Witness ==
  \E p \in Procs :
    /\ Latest(p) /\ co[p].pc = "done" /\ co[p].request = "A"
    /\ CartCourses(pre.cart_items, 12) = {10, 20}
    /\ ~\E r \in course : r.course_id = 20
    /\ pre.enrollments = {}
    /\ Pairs(enrollments) = {<<12, 10>>}
    /\ Pairs(co[p].wrote.enrollments) = {<<12, 10>>}

\* the rows invocation p wrote are the committed state of the tables
Persisted(p) ==
  /\ co[p].wrote.orders \subseteq orders
  /\ co[p].wrote.order_items \subseteq order_items
  /\ co[p].wrote.enrollments \subseteq enrollments
  /\ co[p].wrote.cart_del \cap cart_items = {}

\* C11: once copyCartToOrder has committed, every step of completeOrder leads
\* to its normal return and leaves orders, order_items, enrollments and
\* cart_items as committed, also when the discount cleanup fails
C11_CommittedAlwaysCompletes ==
  [][\A p \in Procs :
       Committed(p) =>
         /\ co'[p].pc \in {"deleteDiscount", "done"}
         /\ co'[p].error = ""
         /\ (\A q \in Procs : ~Active(co[q]) \/ q = p) =>
              /\ orders' = orders /\ order_items' = order_items
              /\ enrollments' = enrollments /\ cart_items' = cart_items
              /\ Persisted(p)']_vars

\* witness of C11: the discount cleanup failed after a commit with an order,
\* its items, enrollments and cart deletions; the discount row is still there
C11_Witness ==
  \E p \in Procs :
    /\ co[p].pc = "done" /\ co[p].fault /\ co[p].request = "A"
    /\ co[p].wrote.orders # {} /\ co[p].wrote.order_items # {}
    /\ co[p].wrote.enrollments # {} /\ co[p].wrote.cart_del # {}
    /\ Persisted(p)
    /\ [student_id |-> 12, discount_id |-> 7] \in student_discount

\* C12: decoding the order info built by processingPurchaseOrder gives back
\* the student id, the course ids in their order and the discount id or its
\* absence, for every purchase list including the empty one; "12##10#20##"
\* decodes to courses 10, 20 without a discount
C12_DecodeInvertsEncode ==
  /\ purchase # NoPurchase =>
       LET d == DecodeOrderInfo(OrderInfo(purchase.idUser, purchase.idCourses,
                                          purchase.idDiscount))
       IN /\ d.idUser = purchase.idUser
          /\ d.idCourses = purchase.idCourses
          /\ d.idDiscount = purchase.idDiscount
  /\ LET e == DecodeOrderInfo(<<"1", "2", "#", "#", "1", "0", "#", "2", "0", "#", "#">>)
     IN e.idUser = 12 /\ e.idCourses = <<10, 20>> /\ e.idDiscount = Null

\* C13: a callback whose order info holds a token that is not an integer is
\* rejected with an error and changes no table; the token is neither ignored
\* nor parsed in part
C13_DecodeFailsClosed ==
  \A p \in Procs :
    (Terminated(p) /\ co[p].request \in MalformedCallbacks)
    => /\ co[p].pc = "failed"
       /\ co[p].wrote = EmptyTx
       /\ Latest(p) => Snapshot = pre

\* C14: a parameter set signed as createVnPayPayment signs it passes the
\* signature check of completeOrder when presented with its vnp_SecureHash,
\* and with any single character of any value changed it fails the check
C14_SignedVerifiesAlteredFails ==
  util.op = "verify" =>
    /\ util.result = ""
    /\ util.alteredResult = "vnp_SecureHash is invalid"

C14_Witness ==
  /\ util.op = "verify"
  /\ util.result = ""
  /\ Lookup(util.paramsMap, vnp_OrderInfo) = <<"%", "2", "0">>
  /\ Lookup(util.altered, vnp_OrderInfo) = <<" ", "2", "0">>
  /\ util.alteredResult # ""

\* C15: getPaymentURL returns the same string for the same entries in
\* another insertion order, with or without the entries whose value is
\* empty, null or undefined
C15_CanonicalOrderAndEmpties ==
  util.op = "canon" => util.result = util.alteredResult

C15_Witness ==
  /\ util.op = "canon"
  /\ Len(util.paramsMap) > Len(util.altered)
  /\ Len(util.altered) > 1
  /\ util.altered[1][1] = vnp_OrderInfo
  /\ util.paramsMap[1][1] = vnp_amount
  /\ \A k \in 1..Len(util.altered) : util.altered[k][2] \notin {<< >>, null, Undefined}
  /\ util.result = util.alteredResult

\* C16: checkoutOrder never returns a negative finalPrice, and no payment
\* URL is built for a negative amount
C16_NoNegativeQuote ==
  purchase # NoPurchase =>
    /\ purchase.checkoutResponse.finalPrice >= 0
    /\ purchase.payment # NoPayment =>
         Head(Lookup(purchase.payment.vnpParamsMap, vnp_Amount)) # "-"

\* the checkout request names a course that is not in the catalog, or a
\* discount that does not exist
UnknownItem(idCourses, idDiscount) ==
  \/ \E k \in 1..Len(idCourses) : idCourses[k] \notin {r.course_id : r \in course}
  \/ idDiscount # Null /\ idDiscount \notin {d.discount_id : d \in discount}

\* C17: when a course of the checkout request is not in the catalog, or the
\* discount given does not exist, checkoutOrder fails with no total returned
\* and processingPurchaseOrder issues no payment URL
C17_UnknownItemFailsWholeRequest ==
  (purchase # NoPurchase /\ UnknownItem(purchase.idCourses, purchase.idDiscount))
  => /\ purchase.checkoutResponse.error # ""
     /\ purchase.checkoutResponse.totalPrice = 0
     /\ purchase.checkoutResponse.finalPrice = 0
     /\ purchase.error # ""
     /\ purchase.payment = NoPayment

C17_Witness ==
  /\ purchase.idCourses = <<10, 20>>
  /\ 20 \notin {r.course_id : r \in course}
  /\ purchase.idDiscount = 7
  /\ purchase.checkoutResponse.error = "Course not found"
  /\ purchase.error = "Course not found"
  /\ purchase.payment = NoPayment

\* the state `after` is the state `before` changed by one successful
\* delivery of the callback of charge ch: the student is enrolled in the
\* purchased cart courses that are in the catalog and new to the student,
\* there is one more order with the charged total and one item per such
\* course at its price, and these courses are gone from the cart; generated
\* ids apart
Delivered(before, after, ch) ==
  LET processed == {c \in Range(ch.idCourses) \cap CartCourses(before.cart_items, ch.idUser) :
                      /\ <<ch.idUser, c>> \notin Pairs(before.enrollments)
                      /\ \E r \in course : r.course_id = c}
      newEnrollments == after.enrollments \ before.enrollments
      newOrders == after.orders \ before.orders
      newItems == after.order_items \ before.order_items
  IN /\ before.enrollments \subseteq after.enrollments
     /\ Pairs(newEnrollments) = {<<ch.idUser, c>> : c \in processed}
     /\ Cardinality(newEnrollments) = Cardinality(processed)
     /\ before.orders \subseteq after.orders
     /\ Cardinality(newOrders) = 1
     /\ before.order_items \subseteq after.order_items
     /\ \A o \in newOrders :
          /\ o.student_id = ch.idUser
          /\ o.total_price * 100 = ch.amount
          /\ newItems = {[order_id |-> o.order_id, course_id |-> c,
                          price |-> PriceOf(c)] : c \in processed}
     /\ after.cart_items = {r \in before.cart_items :
                              ~(/\ r.course_id \in processed
                                /\ \E c \in carts : /\ c.cart_id = r.cart_id
                                                    /\ c.student_id = ch.idUser)}

\* C18: a delivery of a valid callback that fails inside copyCartToOrder
\* leaves orders, order_items, enrollments and the cart as they were when it
\* started, and a delivery that then commits, the first or a redelivery,
\* makes of the state it starts in the state of one successful delivery
C18_RedeliveryAfterFailure ==
  \A p \in Procs, ch \in Charges :
    (Latest(p) /\ co[p].request = ch.name)
    => /\ (co[p].pc = "failed" /\ co[p].error = "storage failure")
            => /\ orders = pre.orders /\ order_items = pre.order_items
               /\ enrollments = pre.enrollments /\ cart_items = pre.cart_items
       /\ Committed(p) => Delivered(pre, Snapshot, ch)

\* witness of C18: the callback A failed after it had written enrollments,
\* was delivered again and committed the whole purchase
C18_Witness ==
  \E p, q \in Procs :
    /\ q < p /\ Latest(p)
    /\ co[q].request = "A" /\ co[q].pc = "failed" /\ co[q].error = "storage failure"
    /\ co[q].wrote.enrollments # {} /\ co[q].wrote.cart_del # {}
    /\ co[p].request = "A" /\ co[p].pc = "done"
    /\ FreshPurchase(ChargeA)
    /\ Pairs(enrollments) = {<<12, 10>>, <<12, 20>>}
    /\ Cardinality(orders) = 1 /\ Cardinality(order_items) = 2
    /\ CartCourses(cart_items, 12) = {}

\* enrollments, order items and cart of a snapshot without generated ids,
\* with the callbacks that failed
Content(snapshot, failed) ==
  [enrollments |-> Pairs(snapshot.enrollments),
   order_items |-> {<<(CHOOSE o \in snapshot.orders : o.order_id = it.order_id).student_id,
                      it.course_id, it.price>> : it \in snapshot.order_items},
   cart_items |-> snapshot.cart_items,
   failed |-> failed]

\* the content after one invocation for charge ch that runs alone
RunAlone(content, ch) ==
  LET rows == {r \in content.cart_items :
                 \E c \in carts : c.cart_id = r.cart_id /\ c.student_id = ch.idUser}
      processed == {c \in Range(ch.idCourses) \cap {r.course_id : r \in rows} :
                      /\ <<ch.idUser, c>> \notin content.enrollments
                      /\ \E r \in course : r.course_id = c}
  IN IF rows = {} THEN [content EXCEPT !.failed = @ \cup {ch.name}]
     ELSE [enrollments |-> content.enrollments \cup {<<ch.idUser, c>> : c \in processed},
           order_items |-> content.order_items
                             \cup {<<ch.idUser, c, PriceOf(c)>> : c \in processed},
           cart_items |-> {r \in content.cart_items :
                             ~(r \in rows /\ r.course_id \in processed)},
           failed |-> content.failed]

\* the content after the invocations of `order` ran one after the other
RECURSIVE RunInOrder(_, _, _)
RunInOrder(content, order, k) ==
  IF k > Len(order) THEN content
  ELSE RunInOrder(RunAlone(content, ChargeOf(co[order[k]].request)), order, k + 1)

Started == {p \in Procs : co[p].pc # "idle"}

\* C19: when concurrent completeOrder invocations for different students, or
\* for one student with disjoint course lists, have all returned, the
\* enrollments, order items and cart are those of running the invocations
\* one after the other in some order, no (student, course) is enrolled
\* twice, and an invocation has failed only if it fails in that order too
C19_DisjointCallbacksDoNotInterfere ==
  (Cardinality(Started) > 1 /\ \A p \in Started : Terminated(p))
  => /\ Cardinality(enrollments) = Cardinality(Pairs(enrollments))
     /\ \E order \in Orderings(Started) :
          Content(Snapshot, {co[p].request : p \in {q \in Started : co[q].pc = "failed"}})
            = RunInOrder(Content(pre, {}), order, 1)

\* witness of C19: B and E, for the two courses of the cart of student 12,
\* were both in their transactions at once and both committed
C19_Witness ==
  /\ {co[p].request : p \in Started} = {"B", "E"}
  /\ \A p \in Started : co[p].pc = "done"
  /\ Pairs(pre.enrollments) = {}
  /\ Pairs(enrollments) = {<<12, 10>>, <<12, 20>>}
  /\ CartCourses(pre.cart_items, 12) = {10, 20}
  /\ CartCourses(cart_items, 12) = {}
  /\ \E o1, o2 \in orders : o1.order_id < o2.order_id
       /\ \E e \in enrollments, it \in order_items :
            /\ it.order_id = o1.order_id /\ e.course_id = it.course_id
            /\ e.enrollment_id = Cardinality(enrollments)

\* C20: the payment URL carries vnp_Amount = 100 * the finalPrice computed
\* by checkoutOrder, and the order stored for the callback that returns this
\* vnp_Amount has total_price = vnp_Amount / 100 = the quoted finalPrice
C20_AmountRoundTrip ==
  purchase.payment # NoPayment =>
    LET quote == checkoutOrder(purchase.idCourses, purchase.idDiscount)
        amount == Lookup(purchase.payment.vnpParamsMap, vnp_Amount)
    IN /\ amount = NumToStr(100 * quote.finalPrice)
       /\ \A p \in Procs :
            LET stored == co[p].wrote.orders
            IN /\ \A o \in stored : /\ o.total_price = quote.finalPrice
                                    /\ o.total_price * 100 = parseInt(amount)
               /\ Committed(p) => (Cardinality(stored) = 1 /\ stored \subseteq orders)

\* witness of C20: courses 10 and 20 with discount 7 quoted at 245, the URL
\* carries 24500 and the callback stored an order with total 245
C20_Witness ==
  \E p \in Procs :
    /\ purchase.idCourses = <<10, 20>> /\ purchase.idDiscount = 7
    /\ purchase.checkoutResponse.finalPrice = 245
    /\ Lookup(purchase.payment.vnpParamsMap, vnp_Amount) = <<"2", "4", "5", "0", "0">>
    /\ co[p].request = "Paid" /\ co[p].pc = "done"
    /\ \E o \in orders : o.total_price = 245 /\ o.student_id = purchase.idUser

\* the byte value of an ASCII character of a key
ByteOf(ch) ==
  IF IsDigit(ch) THEN 48 + DigitVal(ch)
  ELSE IF IsUpper(ch) THEN 64 + (CHOOSE i \in 1..26 : UpperCase[i] = ch)
  ELSE IF IsLower(ch) THEN 96 + (CHOOSE i \in 1..26 : LowerCase[i] = ch)
  ELSE 95

ByteCompare(a, b) ==
  LexCompare([k \in 1..Len(a) |-> ByteOf(a[k])], [k \in 1..Len(b) |-> ByteOf(b[k])], 1)

\* the entries ordered ascending by the byte value of their keys
ByteSorted(entries) ==
  CHOOSE sorted \in Orderings(Range(entries)) :
    \A i, j \in 1..Len(sorted) : i < j => ByteCompare(sorted[i][1], sorted[j][1]) < 0

\* C21: getPaymentURL emits the entries with a non-empty value sorted
\* ascending by the byte value of their keys, as key=percent_encode(value)
\* joined with '&'
C21_SortedByByteValue ==
  util.op = "canon" =>
    LET kept == SelectSeq(util.paramsMap,
                          LAMBDA e : e[2] \notin {<< >>, null, Undefined})
        sorted == ByteSorted(kept)
    IN util.result = join([k \in 1..Len(sorted) |->
                             sorted[k][1] \o <<"=">> \o encodeURIComponent(sorted[k][2])],
                          <<"&">>)

\* the orders of a student among `rows`
OrdersOf(rows, studentId) == {o \in rows : o.student_id = studentId}

\* C22: an invocation whose transaction committed has added exactly one
\* order, of its student, also when it enrolled nobody (the order then has
\* no items); an invocation that was rejected or rolled back has added none;
\* a redelivered callback that commits adds an order and no enrollment
C22_OneOrderPerCommit ==
  \A p \in Procs :
    Latest(p) =>
      /\ Committed(p) =>
           /\ pre.orders \subseteq orders
           /\ Cardinality(orders \ pre.orders) = 1
           /\ orders \ pre.orders \subseteq OrdersOf(orders, co[p].idUser)
           /\ co[p].wrote.enrollments = {} =>
                \A o \in orders \ pre.orders :
                  ~\E it \in order_items : it.order_id = o.order_id
           /\ \A q \in Procs :
                (q < p /\ co[q].request = co[p].request /\ Committed(q))
                => /\ enrollments = pre.enrollments
                   /\ Cardinality(OrdersOf(orders, co[p].idUser))
                        = Cardinality(OrdersOf(pre.orders, co[p].idUser)) + 1
      /\ co[p].pc = "failed" => orders = pre.orders

\* witness of C22: callback A committed twice; the second delivery found
\* the student enrolled, added an order without items and no enrollment
C22_Witness ==
  \E p, q \in Procs :
    /\ q < p /\ Latest(p)
    /\ co[q].request = "A" /\ co[p].request = "A"
    /\ co[q].pc = "done" /\ co[p].pc = "done"
    /\ co[q].wrote.enrollments # {} /\ co[p].wrote.enrollments = {}
    /\ Cardinality(OrdersOf(orders, 12)) = 2
    /\ \E o \in orders : ~\E it \in order_items : it.order_id = o.order_id

C24_ProcessedItemsLeaveTheCart ==
  \A p \in Procs :
    (Latest(p) /\ Committed(p))
    => \A c \in CartCourses(cart_items, co[p].idUser) \cap Range(co[p].idCourses) :
         <<co[p].idUser, c>> \notin Pairs(enrollments)

\* C25: copyCartToOrder leaves every cart item whose course is not in the
\* purchased list, creates order items and enrollments only for courses
\* that are both in the cart of the student and in the purchased list, and
\* changes no cart item, order or enrollment of another student
C25_OnlyPurchasedCartItemsTouched ==
  \A p \in Procs :
    (Latest(p) /\ Terminated(p))
    => LET student == co[p].idUser
           purchased == Range(co[p].idCourses)
           inCart == CartCourses(pre.cart_items, student)
           ownCart == {c.cart_id : c \in {x \in carts : x.student_id = student}}
       IN /\ cart_items \subseteq pre.cart_items
          /\ \A r \in pre.cart_items \ cart_items :
               r.cart_id \in ownCart /\ r.course_id \in purchased
          /\ pre.order_items \subseteq order_items
          /\ \A it \in order_items \ pre.order_items :
               /\ it.course_id \in purchased \cap inCart
               /\ \E o \in orders \ pre.orders :
                    o.order_id = it.order_id /\ o.student_id = student
          /\ pre.enrollments \subseteq enrollments
          /\ \A e \in enrollments \ pre.enrollments :
               e.student_id = student /\ e.course_id \in purchased \cap inCart
          /\ pre.orders \subseteq orders
          /\ \A o \in orders \ pre.orders : o.student_id = student

\* witness of C25: callback B for course 10 only, the cart of student 12
\* held 10 and 20 and student 13 had course 20 in the cart
C25_Witness ==
  \E p \in Procs :
    /\ Latest(p) /\ co[p].pc = "done" /\ co[p].request = "B"
    /\ CartCourses(pre.cart_items, 12) = {10, 20}
    /\ CartCourses(cart_items, 12) = {20}
    /\ CartCourses(cart_items, 13) = {20}
    /\ Pairs(enrollments \ pre.enrollments) = {<<12, 10>>}

\* C26: when the cart holds purchased courses the student is enrolled in and
\* purchased courses (of the catalog) the student is not enrolled in,
\* copyCartToOrder commits, inserts no order item and no enrollment for the
\* former and one order item and one enrollment for each of the latter
C26_AlreadyEnrolledIsSkipped ==
  \A p \in Procs, ch \in Charges :
    LET inCart == Range(ch.idCourses) \cap CartCourses(pre.cart_items, ch.idUser)
        enrolled == {c \in inCart : <<ch.idUser, c>> \in Pairs(pre.enrollments)}
        others == inCart \ enrolled
        newItems == order_items \ pre.order_items
        newEnrollments == enrollments \ pre.enrollments
    IN (/\ Latest(p) /\ Terminated(p)
        /\ co[p].request = ch.name
        /\ co[p].error # "storage failure"
        /\ enrolled # {} /\ others # {}
        /\ \A c \in others : \E r \in course : r.course_id = c)
       => /\ co[p].pc = "done"
          /\ {it.course_id : it \in newItems} = others
          /\ Cardinality(newItems) = Cardinality(others)
          /\ Pairs(newEnrollments) = {<<ch.idUser, c>> : c \in others}
          /\ Cardinality(newEnrollments) = Cardinality(others)
          /\ pre.enrollments \subseteq enrollments

\* witness of C26: student 12 was enrolled in course 10, the cart held 10
\* and 20, callback A enrolled the student in 20 only
C26_Witness ==
  \E p \in Procs :
    /\ Latest(p) /\ co[p].pc = "done" /\ co[p].request = "A"
    /\ CartCourses(pre.cart_items, 12) = {10, 20}
    /\ Pairs(pre.enrollments) = {<<12, 10>>}
    /\ Pairs(enrollments \ pre.enrollments) = {<<12, 20>>}
    /\ {it.course_id : it \in order_items \ pre.order_items} = {20}

\* C27: after any interleaving of createCart and addCourseToCart calls each
\* student has at most one cart row, and a call that found its cart (or its
\* course in the cart) at its start returns the existing row without inserting
C27_OneCartPerStudent ==
  /\ \A studentId \in StudentIds : Cardinality(CartsOf(studentId)) <= 1
  /\ \A p \in Procs :
       cartSvc[p].pc = "done" /\ cartSvc[p].had
         => cartSvc[p].result = "existing" /\ cartSvc[p].inserted = {}

\* the completed purchases of the student have deleted the (student, discount)
\* row of the purchase request
Consumed(request) ==
  /\ \E p \in Procs :
       /\ co[p].pc = "done" /\ ~co[p].fault
       /\ co[p].idUser = request.idUser
       /\ parseInt(co[p].infoOrder[3]) = request.idDiscount
  /\ [student_id |-> request.idUser, discount_id |-> request.idDiscount]
       \notin student_discount

\* C28: a discount is consumed at most once per student: once a completed
\* purchase has deleted the (student, discount) row, a later
\* processingPurchaseOrder of that student naming that discount is quoted
\* with no discount subtracted
C28_DiscountConsumedOnce ==
  [][purchase' # purchase /\ Consumed(purchase')
       => purchase'.checkoutResponse.discountPrice = 0]_vars

\* the order items of the committed orders of a student for a course
ItemsOf(studentId, courseId) ==
  {i \in order_items :
     /\ i.course_id = courseId
     /\ \E o \in orders : o.order_id = i.order_id /\ o.student_id = studentId}

\* C29: in every committed state order items and the enrollments created by
\* copyCartToOrder correspond one to one: every order item belongs to an
\* order of a student enrolled in its course, every enrollment a committed
\* invocation created has exactly one order item for its course among the
\* student's orders, and no (student, course) pair has two order items
C29_OrderItemsMatchEnrollments ==
  /\ \A i \in order_items :
       \E o \in orders :
         /\ o.order_id = i.order_id
         /\ <<o.student_id, i.course_id>> \in Pairs(enrollments)
  /\ \A p \in Procs :
       Committed(p) =>
         \A e \in co[p].wrote.enrollments :
           Cardinality(ItemsOf(e.student_id, e.course_id)) = 1
  /\ \A studentId \in StudentIds, courseId \in CourseIds :
       Cardinality(ItemsOf(studentId, courseId)) <= 1

\* a committed invocation that created enrollments and order items
C29_Witness ==
  \E p \in Procs :
    /\ Committed(p)
    /\ co[p].wrote.enrollments # {}
    /\ co[p].wrote.order_items # {}
    /\ co[p].wrote.order_items \subseteq order_items

\* C30: a correctly signed callback whose vnp_ResponseCode and
\* vnp_TransactionStatus report a cancelled payment creates no order, no
\* enrollment and removes nothing from the cart
C30_FailedPaymentWritesNothing ==
  \A p \in Procs :
    (co[p].request = "Cancelled" /\ Latest(p))
    => /\ VerifySecureHash(CancelledCallback) = ""
       /\ orders = pre.orders
       /\ enrollments = pre.enrollments
       /\ cart_items = pre.cart_items

====
